---- MODULE Spec2Model ----
(***************************************************************************)
(* Model of pglogical_relmetacache.c: the per-session relation metadata    *)
(* cache of the pglogical output plugin, its relcache invalidation         *)
(* callback and the deferred pruning of invalidated entries.               *)
(***************************************************************************)
EXTENDS Integers, Sequences, FiniteSets, TLC

\* ------------------------------------------------------------------ bounds
\* Relation oids the decoding session and the host talk about: 1..MaxOid.
MaxOid == 2
\* Hash tables hash_create() may make over the life of the process.
MaxTables == 2

Oids == 1..MaxOid

\* ------------------------------------------------------- program constants
\* The null HTAB pointer (static HTAB *RelMetaCache = NULL).
NULL == 0
\* "No entry pointer": the caller's *entry before any lookup.
NoRel == 0
\* Marks a key with no entry in a hash table.
NoEntry == [absent |-> TRUE]

\* ------------------------------------------------------------------- state
VARIABLES
    assert_enabled,      \* build flavour: USE_ASSERT_CHECKING, Assert() is live
    RelMetaCache,        \* static HTAB *RelMetaCache: NULL or a table of heap
    callback_registered, \* static bool callback_registered
    heap,                \* every HTAB ever created: [live, tab]
    regCount,            \* calls of CacheRegisterRelcacheCallback made so far
    held,                \* relid of the entry pointer the caller got in *entry
    pc,                  \* "run", "destroyed" (inside destroy), "aborted"
    lastOp,              \* the call that ran last, its argument and its result
    inval,               \* oids invalidated while cached, not looked up since
    notified,            \* oids whose entry got the callback since it was made
    midUse,              \* oids invalidated while the caller held their entry,
                         \* not looked up since
    scen                 \* how far the calls so far follow the sequence init,
                         \* miss, mark, hit, callback, lookup, prune on one oid

vars == <<assert_enabled, RelMetaCache, callback_registered, heap, regCount,
          held, pc, lastOp, inval, notified, midUse, scen>>

\* struct PGLRelMetaCacheEntry, keyed by relid: the two flags the file uses.
Entry == [is_cached : BOOLEAN, is_valid : BOOLEAN]

\* An HTAB's content: for each key its entry, or NoEntry.
EmptyTab == [o \in Oids |-> NoEntry]

\* Mutant: the new table comes with entries of an earlier session.
NewTable_Dirty ==
    [live |-> TRUE,
     tab |-> [o \in Oids |-> [is_cached |-> TRUE, is_valid |-> TRUE]]]

\* A table as hash_create() returns it.
NewTable == [live |-> TRUE, tab |-> EmptyTab]

\* A table after hash_destroy(): its memory is gone.
FreedTable == [live |-> FALSE, tab |-> EmptyTab]

\* A table no pointer refers to any more (RelMetaCache was overwritten): it
\* stays allocated in its memory context, and as nothing can read it again
\* its contents are not tracked further.
Unreferenced(table) == [live |-> table.live, tab |-> EmptyTab]

\* A record of a call: its name, its relid argument, the value it returned
\* (for the prune: whether it raised its ERROR) and, for the prune, the keys
\* hash_seq_search returned, in order.
Op(name, relid, ret, visited) ==
    [op |-> name, relid |-> relid, ret |-> ret, visited |-> visited]

\* The keys of a table that have an entry.
Keys(tab) == {o \in Oids : tab[o] # NoEntry}

\* The table RelMetaCache points at.
CurTab == heap[RelMetaCache].tab

----------------------------------------------------------------------------
\* hash_search(RelMetaCache, &relid, HASH_FIND, NULL)
HashFind(tab, relid) == tab[relid]

\* hash_search(..., HASH_REMOVE, NULL): the table without the entry; the call
\* returns NULL when the key has no entry.
HashRemove(tab, relid) == [tab EXCEPT ![relid] = NoEntry]

----------------------------------------------------------------------------
\* The position in the call sequence
\*   init, cache(id) missing, mark, cache(id) hitting, callback(id),
\*   cache(id), prune
\* stage n: the last n calls were the first n calls of the sequence, on id.
NoScen == [id |-> NoRel, stage |-> 0]

\* The position after the call `call`; `started` tells whether an init
\* returned (it did not stop the process).
Track(s, call, started) ==
    IF call.op = "init"
      THEN IF started THEN [id |-> NoRel, stage |-> 1] ELSE NoScen
    ELSE IF s.stage = 1 /\ call.op = "cache" /\ ~call.ret
      THEN [id |-> call.relid, stage |-> 2]
    ELSE IF s.stage = 2 /\ call.op = "mark" /\ call.relid = s.id
      THEN [s EXCEPT !.stage = 3]
    ELSE IF s.stage = 3 /\ call.op = "cache" /\ call.relid = s.id /\ call.ret
      THEN [s EXCEPT !.stage = 4]
    ELSE IF s.stage = 4 /\ call.op = "callback" /\ call.relid = s.id
      THEN [s EXCEPT !.stage = 5]
    ELSE IF s.stage = 5 /\ call.op = "cache" /\ call.relid = s.id
      THEN [s EXCEPT !.stage = 6]
    ELSE IF s.stage = 6 /\ call.op = "prune"
      THEN [s EXCEPT !.stage = 7]
    ELSE NoScen

----------------------------------------------------------------------------
Init ==
    /\ assert_enabled \in BOOLEAN
    /\ RelMetaCache = NULL
    /\ callback_registered = FALSE
    /\ heap = <<>>
    /\ regCount = 0
    /\ held = NoRel
    /\ pc = "run"
    /\ lastOp = Op("none", NoRel, FALSE, <<>>)
    /\ inval = {}
    /\ notified = {}
    /\ midUse = {}
    /\ scen = NoScen

----------------------------------------------------------------------------
\* pglogical_init_relmetacache(), line 55: Assert(RelMetaCache == NULL) stops
\* the process only in a build with assertions compiled in.
InitAssertFails(htab, asserts) == asserts /\ htab # NULL

\* Mutant: the registration is not guarded by the flag.
NeedRegister_Always(registered) == TRUE

\* Line 88: if (!callback_registered)
NeedRegister(registered) == ~registered

\* pglogical_init_relmetacache(decoding_context)
pglogical_init_relmetacache ==
    /\ pc = "run"
    /\ IF InitAssertFails(RelMetaCache, assert_enabled)
         THEN /\ pc' = "aborted"
              /\ UNCHANGED <<RelMetaCache, callback_registered, heap, regCount,
                             held, inval, notified, midUse>>
         ELSE /\ Len(heap) < MaxTables
              /\ heap' = Append(IF RelMetaCache # NULL
                                  THEN [heap EXCEPT ![RelMetaCache] =
                                                      Unreferenced(@)]
                                  ELSE heap,
                                NewTable)
              /\ RelMetaCache' = Len(heap) + 1
              /\ IF NeedRegister(callback_registered)
                   THEN /\ regCount' = regCount + 1
                        /\ callback_registered' = TRUE
                   ELSE UNCHANGED <<regCount, callback_registered>>
              /\ held' = NoRel
              /\ inval' = {}
              /\ notified' = {}
              /\ midUse' = {}
              /\ pc' = "run"
    /\ lastOp' = Op("init", NoRel, FALSE, <<>>)
    /\ scen' = Track(scen, lastOp', pc' = "run")
    /\ UNCHANGED assert_enabled

----------------------------------------------------------------------------
\* Mutant: the callback removes the entry instead of marking it.
CallbackTab_Remove(tab, relid) == HashRemove(tab, relid)

\* Mutant: the callback finds the entry and does not mark it.
CallbackTab_NoMark(tab, relid) == tab

\* Lines 124-128: find the entry; if there is one, clear is_valid.
CallbackTab(tab, relid) ==
    IF HashFind(tab, relid) # NoEntry
      THEN [tab EXCEPT ![relid].is_valid = FALSE]
      ELSE tab

\* Mutant: the callback without the test of lines 109-110; with no table
\* bound hash_search dereferences the null pointer.
relmeta_cache_callback_NoNullTest(relid) ==
    /\ pc = "run"
    /\ IF RelMetaCache = NULL
         THEN pc' = "aborted" /\ UNCHANGED <<heap, inval>>
         ELSE /\ pc' = pc
              /\ heap' = [heap EXCEPT ![RelMetaCache].tab = CallbackTab(@, relid)]
              /\ inval' = inval
    /\ lastOp' = Op("callback", relid, FALSE, <<>>)
    /\ UNCHANGED <<assert_enabled, RelMetaCache, callback_registered, regCount,
                   held, notified, midUse, scen>>

\* relmeta_cache_callback(arg, relid): the host calls it between the calls of
\* the decoding session and while the session uses an entry it looked up.
relmeta_cache_callback(relid) ==
    /\ pc = "run"
    /\ IF RelMetaCache = NULL
         THEN UNCHANGED <<heap, inval, notified, midUse>>
         ELSE /\ heap' = [heap EXCEPT ![RelMetaCache].tab = CallbackTab(@, relid)]
              /\ inval' = IF /\ HashFind(CurTab, relid) # NoEntry
                             /\ HashFind(CurTab, relid).is_cached
                            THEN inval \cup {relid}
                            ELSE inval
              /\ notified' = IF HashFind(CurTab, relid) # NoEntry
                               THEN notified \cup {relid}
                               ELSE notified
              /\ midUse' = IF HashFind(CurTab, relid) # NoEntry /\ held = relid
                             THEN midUse \cup {relid}
                             ELSE midUse
    /\ lastOp' = Op("callback", relid, FALSE, <<>>)
    /\ scen' = Track(scen, lastOp', TRUE)
    /\ UNCHANGED <<assert_enabled, RelMetaCache, callback_registered, regCount,
                   held, pc>>

----------------------------------------------------------------------------
\* Lines 152-156: what the code writes into an entry HASH_ENTER just made.
\* is_cached is set; is_valid is not assigned and keeps whatever the
\* entry's memory held (garbage).
CreateEntry(garbage) == [is_cached |-> FALSE, is_valid |-> garbage]

\* Mutant: a lookup that finds an entry resets it to the state of a new,
\* valid entry.
HashEnter_Revalidate(tab, relid, garbage) ==
    [tab EXCEPT ![relid] = [is_cached |-> FALSE, is_valid |-> TRUE]]

\* hash_search(RelMetaCache, &relid, HASH_ENTER, &found) and lines 152-156.
HashEnter(tab, relid, garbage) ==
    IF HashFind(tab, relid) # NoEntry
      THEN tab
      ELSE [tab EXCEPT ![relid] = CreateEntry(garbage)]

\* Line 161: return hentry->is_cached;
CacheResult(hentry) == hentry.is_cached

\* pglogical_cache_relmeta(data, rel, &entry), called inside a session.
pglogical_cache_relmeta(relid) ==
    /\ pc = "run"
    /\ RelMetaCache # NULL
    /\ \E garbage \in BOOLEAN :
         LET tab2 == HashEnter(CurTab, relid, garbage) IN
         /\ heap' = [heap EXCEPT ![RelMetaCache].tab = tab2]
         /\ lastOp' = Op("cache", relid, CacheResult(tab2[relid]), <<>>)
    /\ held' = relid
    /\ inval' = inval \ {relid}
    /\ notified' = IF HashFind(CurTab, relid) = NoEntry
                     THEN notified \ {relid}
                     ELSE notified
    /\ midUse' = midUse \ {relid}
    /\ scen' = Track(scen, lastOp', TRUE)
    /\ UNCHANGED <<assert_enabled, RelMetaCache, callback_registered, regCount,
                   pc>>

\* The caller of pglogical_cache_relmeta sets is_cached through the entry
\* pointer it was given, once it has sent the relation's metadata.
mark_sent ==
    /\ pc = "run"
    /\ RelMetaCache # NULL
    /\ held # NoRel
    /\ heap' = [heap EXCEPT ![RelMetaCache].tab[held].is_cached = TRUE]
    /\ held' = NoRel
    /\ lastOp' = Op("mark", held, FALSE, <<>>)
    /\ scen' = Track(scen, lastOp', TRUE)
    /\ UNCHANGED <<assert_enabled, RelMetaCache, callback_registered, regCount,
                   pc, inval, notified, midUse>>

----------------------------------------------------------------------------
\* Mutant: the scan returns every entry a second time after the first pass.
RECURSIVE ScanOrder_Once(_)
ScanOrder_Once(keys) ==
    IF keys = {} THEN <<>>
    ELSE LET k == CHOOSE x \in keys : \A y \in keys : x <= y
         IN <<k>> \o ScanOrder_Once(keys \ {k})

ScanOrder_Twice(keys) == ScanOrder_Once(keys) \o ScanOrder_Once(keys)

\* The keys of a set in ascending order: the order hash_seq_search returns
\* the entries in.
RECURSIVE ScanOrder(_)
ScanOrder(keys) ==
    IF keys = {} THEN <<>>
    ELSE LET k == CHOOSE x \in keys : \A y \in keys : x <= y
         IN <<k>> \o ScanOrder(keys \ {k})

\* Mutant: the test of line 195 inverted.
PruneWanted_Inverted(hentry) == hentry.is_valid

\* Mutant: the loop removes every entry it visits.
PruneWanted_Always(hentry) == TRUE

\* Line 195: if (!hentry->is_valid)
PruneWanted(hentry) == ~hentry.is_valid

\* The element hash_seq_search returns for a key: the entry in the table,
\* or, for an element that was removed during the scan, the fields its
\* memory still holds.
ScanEntry(r, relid) ==
    IF r.tab[relid] # NoEntry THEN r.tab[relid] ELSE r.start[relid]

\* Mutant: the scan does not survive a removal; the loop ends after the
\* first entry it removes.
RECURSIVE PruneLoop_StopAfterRemove(_, _)
PruneLoop_StopAfterRemove(r, scan) ==
    IF scan = <<>> \/ r.error THEN r
    ELSE LET relid == Head(scan)
             hentry == ScanEntry(r, relid)
             seen == Append(r.visited, relid)
         IN IF PruneWanted(hentry)
              THEN [r EXCEPT !.tab = HashRemove(r.tab, relid), !.visited = seen]
              ELSE PruneLoop_StopAfterRemove([r EXCEPT !.visited = seen],
                                             Tail(scan))

\* Lines 193-202: the while loop over the entries the scan still has to
\* return. r.tab is the table, r.start the table when the scan began,
\* r.visited the keys returned so far, r.error whether
\* elog(ERROR, "hash table corrupted") was raised.
RECURSIVE PruneLoop(_, _)
PruneLoop(r, scan) ==
    IF scan = <<>> \/ r.error THEN r
    ELSE LET relid == Head(scan)
             hentry == ScanEntry(r, relid)
             seen == Append(r.visited, relid)
         IN IF PruneWanted(hentry)
              THEN IF HashFind(r.tab, relid) = NoEntry
                     THEN [r EXCEPT !.visited = seen, !.error = TRUE]
                     ELSE PruneLoop([r EXCEPT !.tab = HashRemove(r.tab, relid),
                                              !.visited = seen],
                                    Tail(scan))
              ELSE PruneLoop([r EXCEPT !.visited = seen], Tail(scan))

\* hash_seq_init and the loop, on a table.
Prune(tab) ==
    PruneLoop([tab |-> tab, start |-> tab, visited |-> <<>>, error |-> FALSE],
              ScanOrder(Keys(tab)))

\* pglogical_prune_relmetacache(), called inside a session when the caller
\* holds no entry pointer.
pglogical_prune_relmetacache ==
    /\ pc = "run"
    /\ RelMetaCache # NULL
    /\ heap' = [heap EXCEPT ![RelMetaCache].tab = Prune(@).tab]
    /\ held' = NoRel
    /\ lastOp' = Op("prune", NoRel, Prune(CurTab).error,
                    Prune(CurTab).visited)
    /\ notified' = notified \cap Keys(Prune(CurTab).tab)
    /\ scen' = Track(scen, lastOp', TRUE)
    /\ UNCHANGED <<assert_enabled, RelMetaCache, callback_registered, regCount,
                   pc, inval, midUse>>

----------------------------------------------------------------------------
\* Mutant: hash_destroy is called without the test of line 172; with no
\* table bound it dereferences the null pointer.
destroy_hash_destroy_NoTest ==
    /\ pc = "run"
    /\ IF RelMetaCache # NULL
         THEN /\ heap' = [heap EXCEPT ![RelMetaCache] = FreedTable]
              /\ pc' = "destroyed"
         ELSE /\ pc' = "aborted"
              /\ UNCHANGED heap
    /\ held' = NoRel
    /\ inval' = {}
    /\ notified' = {}
    /\ midUse' = {}
    /\ lastOp' = Op("destroy", NoRel, FALSE, <<>>)
    /\ scen' = NoScen
    /\ UNCHANGED <<assert_enabled, RelMetaCache, callback_registered, regCount>>

\* pglogical_destroy_relmetacache(), lines 172-174: the test and
\* hash_destroy(RelMetaCache). With no table bound the call does nothing.
destroy_hash_destroy ==
    /\ pc = "run"
    /\ IF RelMetaCache # NULL
         THEN /\ heap' = [heap EXCEPT ![RelMetaCache] = FreedTable]
              /\ pc' = "destroyed"
         ELSE UNCHANGED <<heap, pc>>
    /\ held' = NoRel
    /\ inval' = {}
    /\ notified' = {}
    /\ midUse' = {}
    /\ lastOp' = Op("destroy", NoRel, FALSE, <<>>)
    /\ scen' = Track(scen, lastOp', TRUE)
    /\ UNCHANGED <<assert_enabled, RelMetaCache, callback_registered, regCount>>

\* pglogical_destroy_relmetacache(), line 175: RelMetaCache = NULL;
destroy_set_null ==
    /\ pc = "destroyed"
    /\ RelMetaCache' = NULL
    /\ pc' = "run"
    /\ UNCHANGED <<assert_enabled, callback_registered, heap, regCount, held,
                   lastOp, inval, notified, midUse, scen>>

----------------------------------------------------------------------------
Next ==
    \/ pglogical_init_relmetacache
    \/ \E relid \in Oids : relmeta_cache_callback(relid)
    \/ \E relid \in Oids : pglogical_cache_relmeta(relid)
    \/ mark_sent
    \/ pglogical_prune_relmetacache
    \/ destroy_hash_destroy
    \/ destroy_set_null

Spec == Init /\ [][Next]_vars

TypeOK ==
    /\ assert_enabled \in BOOLEAN
    /\ RelMetaCache \in 0..Len(heap)
    /\ callback_registered \in BOOLEAN
    /\ \A i \in 1..Len(heap) :
         /\ heap[i].live \in BOOLEAN
         /\ \A o \in Oids : heap[i].tab[o] = NoEntry \/ heap[i].tab[o] \in Entry
    /\ regCount \in Nat
    /\ held \in Oids \cup {NoRel}
    /\ pc \in {"run", "destroyed", "aborted"}
    /\ inval \subseteq Oids
    /\ notified \subseteq Oids
    /\ midUse \subseteq Oids
    /\ scen.id \in Oids \cup {NoRel}
    /\ scen.stage \in 0..7

----------------------------------------------------------------------------
\* Helpers of the properties below.

\* The step is a call of the named function.
IsCall(name) == lastOp'.op = name

\* The step is a call of the named function with this relid.
IsCallOn(name, relid) == lastOp'.op = name /\ lastOp'.relid = relid

\* The key has an entry in the bound table.
Present(relid) == HashFind(CurTab, relid) # NoEntry

\* The tables that are live.
LiveTables == {i \in 1..Len(heap) : heap[i].live}

----------------------------------------------------------------------------
\* C1: once the callback has run for a relid whose entry has is_cached set,
\* the next pglogical_cache_relmeta of that relid does not return a hit,
\* whether or not a prune ran in between.
C1_InvalidatedLookupIsNotHit ==
    [][\A relid \in Oids :
         (relid \in inval /\ IsCallOn("cache", relid)) => ~lastOp'.ret]_vars

\* C2: pglogical_cache_relmeta returns a hit exactly when the entry existed
\* before the call and had is_valid and is_cached set.
C2_HitIffPresentValidCached ==
    [][\A relid \in Oids :
         IsCallOn("cache", relid) =>
           (lastOp'.ret <=> (/\ Present(relid)
                             /\ CurTab[relid].is_valid
                             /\ CurTab[relid].is_cached))]_vars

\* C3: an entry created by a lookup miss starts with is_cached clear and
\* is_valid set.
C3_NewEntryDefaults ==
    [][\A relid \in Oids :
         (IsCallOn("cache", relid) /\ ~Present(relid)) =>
           heap'[RelMetaCache'].tab[relid] =
             [is_cached |-> FALSE, is_valid |-> TRUE]]_vars

\* C4: when pglogical_prune_relmetacache returns, the table holds no entry
\* with is_valid clear.
C4_PruneLeavesNoInvalid ==
    [][IsCall("prune") =>
         /\ ~lastOp'.ret
         /\ \A relid \in Oids :
              \/ heap'[RelMetaCache'].tab[relid] = NoEntry
              \/ heap'[RelMetaCache'].tab[relid].is_valid]_vars

\* C4 witness: a prune has run over two entries and removed one of them.
C4_Witness ==
    /\ lastOp.op = "prune"
    /\ Len(lastOp.visited) = 2
    /\ \E relid \in Oids :
         /\ \E i \in 1..Len(lastOp.visited) : lastOp.visited[i] = relid
         /\ ~Present(relid)

\* C5: pglogical_prune_relmetacache leaves every entry that had is_valid set
\* in the table with its fields unchanged, and leaves RelMetaCache and
\* callback_registered unchanged.
C5_PruneKeepsValid ==
    [][IsCall("prune") =>
         /\ \A relid \in Oids :
              (Present(relid) /\ CurTab[relid].is_valid) =>
                heap'[RelMetaCache'].tab[relid] = CurTab[relid]
         /\ RelMetaCache' = RelMetaCache
         /\ callback_registered' = callback_registered
         /\ regCount' = regCount]_vars

\* C5 witness: a prune has removed one entry and kept another that is valid
\* and cached.
C5_Witness ==
    /\ lastOp.op = "prune"
    /\ \E gone, kept \in Oids :
         /\ \E i \in 1..Len(lastOp.visited) : lastOp.visited[i] = gone
         /\ \E i \in 1..Len(lastOp.visited) : lastOp.visited[i] = kept
         /\ ~Present(gone)
         /\ Present(kept)
         /\ CurTab[kept].is_valid
         /\ CurTab[kept].is_cached

\* C6: relmeta_cache_callback(Y) leaves the set of keys of the table
\* unchanged, leaves is_cached of every entry unchanged and leaves is_valid
\* of every entry other than Y's unchanged; Y's entry, if any, is invalid.
C6_CallbackFrame ==
    [][\A y \in Oids :
         (IsCallOn("callback", y) /\ RelMetaCache # NULL) =>
           /\ RelMetaCache' = RelMetaCache
           /\ Keys(heap'[RelMetaCache'].tab) = Keys(CurTab)
           /\ \A relid \in Keys(CurTab) :
                /\ heap'[RelMetaCache'].tab[relid].is_cached
                     = CurTab[relid].is_cached
                /\ relid # y =>
                     heap'[RelMetaCache'].tab[relid].is_valid
                       = CurTab[relid].is_valid
           /\ y \in Keys(CurTab) => ~heap'[RelMetaCache'].tab[y].is_valid
           /\ \A i \in 1..Len(heap) : i # RelMetaCache => heap'[i] = heap[i]
           /\ Len(heap') = Len(heap)]_vars

\* C6 witness: the callback has just marked a cached entry invalid while
\* another key has a valid entry.
C6_Witness ==
    /\ lastOp.op = "callback"
    /\ RelMetaCache # NULL
    /\ Present(lastOp.relid)
    /\ ~CurTab[lastOp.relid].is_valid
    /\ CurTab[lastOp.relid].is_cached
    /\ \E other \in Oids \ {lastOp.relid} :
         Present(other) /\ CurTab[other].is_valid

\* C7: CacheRegisterRelcacheCallback is called exactly once: not before the
\* first pglogical_init_relmetacache, once by it and never again, and
\* callback_registered never goes back to false.
C7_RegisteredOnce ==
    /\ [](regCount = IF Len(heap) = 0 THEN 0 ELSE 1)
    /\ [](callback_registered <=> regCount = 1)
    /\ [][callback_registered => callback_registered']_vars

\* C7 witness: a second session has been started and ended.
C7_Witness ==
    /\ Len(heap) = 2
    /\ RelMetaCache = NULL
    /\ regCount = 1

\* C8: relmeta_cache_callback with no table bound raises no fault and
\* changes nothing: RelMetaCache stays NULL, callback_registered is
\* unchanged and no table or entry is made.
C8_CallbackUnboundNoOp ==
    [][(IsCall("callback") /\ RelMetaCache = NULL) =>
         /\ RelMetaCache' = NULL
         /\ pc' = "run"
         /\ UNCHANGED <<callback_registered, heap, regCount, held,
                        assert_enabled>>]_vars

\* C8 witness: the callback has run after a session ended.
C8_Witness ==
    /\ lastOp.op = "callback"
    /\ RelMetaCache = NULL
    /\ Len(heap) > 0
    /\ LiveTables = {}

\* C9: pglogical_destroy_relmetacache unbinds RelMetaCache before it
\* destroys the table: at every point, the points between its steps
\* included, a non-null RelMetaCache refers to a table that is not destroyed.
C9_BoundTableIsLive ==
    RelMetaCache # NULL => heap[RelMetaCache].live

\* C10: pglogical_init_relmetacache called while a table is bound fails
\* fatally: no second table is made, RelMetaCache still refers to the
\* original table and that table is unchanged, so at most one table is live.
C10_InitWhileBoundFails ==
    [][(IsCall("init") /\ RelMetaCache # NULL) =>
         /\ pc' = "aborted"
         /\ Len(heap') = Len(heap)
         /\ RelMetaCache' = RelMetaCache
         /\ heap'[RelMetaCache'] = heap[RelMetaCache]
         /\ Cardinality({i \in 1..Len(heap') : heap'[i].live}) <= 1]_vars

\* The step is a call made inside a session that is not its end.
InSession ==
    IsCall("cache") \/ IsCall("mark") \/ IsCall("callback") \/ IsCall("prune")

\* C11: inside a session a lookup leaves its relid with an entry, and an
\* entry leaves the table only in a prune and only if it was invalid: no
\* lookup, callback or mark removes an entry, a prune removes no valid one.
C11_EntryKeptUntilPrunedInvalid ==
    [][(InSession /\ RelMetaCache # NULL) =>
         /\ RelMetaCache' = RelMetaCache
         /\ \A relid \in Oids :
              /\ IsCallOn("cache", relid) =>
                   heap'[RelMetaCache'].tab[relid] # NoEntry
              /\ (Present(relid) /\ heap'[RelMetaCache'].tab[relid] = NoEntry)
                   => (IsCall("prune") /\ ~CurTab[relid].is_valid)]_vars

\* C11 witness: an entry that was invalidated and then marked sent is still
\* in the table, next to a second entry.
C11_Witness ==
    /\ lastOp.op = "mark"
    /\ Present(lastOp.relid)
    /\ lastOp.relid \in notified
    /\ ~CurTab[lastOp.relid].is_valid
    /\ Cardinality(Keys(CurTab)) = 2

\* C12: the sequence init, cache(id) missing, mark, cache(id) hitting,
\* callback(id), cache(id), prune ends with no entry for id or with one
\* entry that is valid and not cached; never with a cached or invalid one.
C12_ScenarioEnd ==
    scen.stage = 7 =>
      \/ ~Present(scen.id)
      \/ CurTab[scen.id] = [is_cached |-> FALSE, is_valid |-> TRUE]

\* C12 witness: the whole sequence has run.
C12_Witness ==
    /\ scen.stage = 7
    /\ lastOp.op = "prune"
    /\ ~Present(scen.id)

\* C13: a prune removes an entry only if the callback ran for its relid
\* since the entry was made.
C13_PruneRemovesOnlyNotified ==
    [][IsCall("prune") =>
         \A relid \in Oids :
           (Present(relid) /\ heap'[RelMetaCache'].tab[relid] = NoEntry)
             => relid \in notified]_vars

\* C14: a callback for X that runs after the lookup of X returned and while
\* the caller still holds the entry (before it sets is_cached) is not lost:
\* the next lookup of X is not a hit.
C14_MidUseInvalidationSeen ==
    [][\A x \in Oids :
         (x \in midUse /\ IsCallOn("cache", x)) => ~lastOp'.ret]_vars

\* C15: a prune ends without its ERROR and its scan returns every entry that
\* was in the table when it began exactly once, although the loop removes
\* entries while the scan is in progress.
C15_PruneVisitsEachOnce ==
    [][IsCall("prune") =>
         /\ ~lastOp'.ret
         /\ Len(lastOp'.visited) = Cardinality(Keys(CurTab))
         /\ {lastOp'.visited[i] : i \in 1..Len(lastOp'.visited)}
              = Keys(CurTab)]_vars

\* C15 witness: the scan went on to a second entry after the loop removed
\* the first one.
C15_Witness ==
    /\ lastOp.op = "prune"
    /\ Len(lastOp.visited) = 2
    /\ ~Present(lastOp.visited[1])
    /\ Present(lastOp.visited[2])

\* C16: no prune raises "hash table corrupted": every removal the loop
\* attempts finds its entry in the table.
C16_NoCorruptedError ==
    [][IsCall("prune") => ~lastOp'.ret]_vars

\* C16 witness: a prune attempted two removals and both found their entry.
C16_Witness ==
    /\ lastOp.op = "prune"
    /\ ~lastOp.ret
    /\ Len(lastOp.visited) = 2
    /\ Keys(CurTab) = {}

\* C17: nothing sets is_valid back to true: an invalid entry stays in the
\* table and stays invalid through every lookup, mark and callback, and the
\* next prune removes it.
C17_InvalidStaysInvalid ==
    [][(InSession /\ RelMetaCache # NULL) =>
         \A relid \in Oids :
           (Present(relid) /\ ~CurTab[relid].is_valid) =>
             IF IsCall("prune")
               THEN heap'[RelMetaCache'].tab[relid] = NoEntry
               ELSE /\ heap'[RelMetaCache'].tab[relid] # NoEntry
                    /\ ~heap'[RelMetaCache'].tab[relid].is_valid]_vars

\* C17 witness: an entry marked invalid by the callback has been looked up
\* again and is still invalid.
C17_Witness ==
    /\ lastOp.op = "cache"
    /\ Present(lastOp.relid)
    /\ lastOp.relid \in notified
    /\ ~CurTab[lastOp.relid].is_valid

\* C18: a table made by pglogical_init_relmetacache is empty, and a lookup
\* on an empty table is a miss, whatever an earlier session cached.
C18_NewSessionStartsEmpty ==
    [][/\ (IsCall("init") /\ pc' = "run") =>
            Keys(heap'[RelMetaCache'].tab) = {}
       /\ \A relid \in Oids :
            (IsCallOn("cache", relid) /\ Keys(CurTab) = {}) => ~lastOp'.ret]_vars

\* C18 witness: the first lookup of a second session, after the first
\* session's table was destroyed, was a miss.
C18_Witness ==
    /\ lastOp.op = "cache"
    /\ ~lastOp.ret
    /\ RelMetaCache = 2
    /\ ~heap[1].live
    /\ Cardinality(Keys(CurTab)) = 1

\* C19: pglogical_destroy_relmetacache with no table bound raises no fault
\* and changes nothing, and when any call of it has returned RelMetaCache
\* is NULL, so the assertion of a following init holds.
C19_DestroyIdempotent ==
    /\ [][(IsCall("destroy") /\ pc = "run" /\ RelMetaCache = NULL) =>
            /\ RelMetaCache' = NULL
            /\ pc' = "run"
            /\ UNCHANGED <<callback_registered, heap, regCount, held,
                           assert_enabled>>]_vars
    /\ []((lastOp.op = "destroy" /\ pc = "run") =>
            /\ RelMetaCache = NULL
            /\ ~InitAssertFails(RelMetaCache, assert_enabled))

\* C19 witness: the destroy function has run and returned before any table
\* was ever made.
C19_Witness ==
    /\ lastOp.op = "destroy"
    /\ pc = "run"
    /\ RelMetaCache = NULL
    /\ Len(heap) = 0

====
